---- MODULE Spec2Model ----
(***************************************************************************)
(* Model of tracetools_trace/tools/lttng_impl.py: the session setup        *)
(* orchestration (setup, _create_session, _enable_events, _add_context),   *)
(* the daemon reachability probe (get_session_daemon_pid,                  *)
(* is_session_daemon_unreachable) and the context normalisation            *)
(* (_normalize_contexts_dict, _create_context_list).                       *)
(*                                                                         *)
(* Strings that the code only compares or passes on are TLA+ strings.      *)
(* Strings that the code parses (the PID file, the output of ps) are       *)
(* sequences of one-character strings.                                     *)
(***************************************************************************)
EXTENDS Integers, Sequences, FiniteSets, TLC

\* ------------------------------------------------------------------ bounds
\* Longest PID file content that Init enumerates.
MaxPidLen == 2
\* Number of distinct userspace event names a caller may pass.
MaxEvents == 2
\* Longest list of context field names a caller may pass (per list).
MaxFields == 2

\* --------------------------------------------------------------- constants
\* The reserved "already exists" result of lttng.create.
AlreadyExists == -28
\* The result codes the daemon client may return: success, the reserved
\* code, and one other failure.
ResultCodes == {0, AlreadyExists, -1}

\* Optional[T]: Python's None, or a value.
NoneVal == [isNone |-> TRUE]
Some(v) == [isNone |-> FALSE, value |-> v]

\* ------------------------------------------------------------- characters
Digits == {"0", "1"}
Whitespace == {" ", "\n"}
PidChars == Digits \cup {"\n", "x"}

\* str.strip(): drop leading and trailing whitespace.
RECURSIVE LStrip(_)
LStrip(s) ==
    IF s # <<>> /\ Head(s) \in Whitespace THEN LStrip(Tail(s)) ELSE s

RECURSIVE RStrip(_)
RStrip(s) ==
    IF s # <<>> /\ s[Len(s)] \in Whitespace
    THEN RStrip(SubSeq(s, 1, Len(s) - 1))
    ELSE s

Strip(s) == RStrip(LStrip(s))

\* str.isdigit() on the characters of PidChars: non-empty and all digits.
IsDigit(s) == s # <<>> /\ \A i \in 1..Len(s) : s[i] \in Digits

DigitValue(c) == IF c = "0" THEN 0 ELSE 1

\* int(s) for a string of decimal digits.
RECURSIVE ParseInt(_)
ParseInt(s) ==
    IF s = <<>> THEN 0
    ELSE 10 * ParseInt(SubSeq(s, 1, Len(s) - 1)) + DigitValue(s[Len(s)])

\* All sequences over S of length at most n.
SeqsUpTo(S, n) == UNION {[1..k -> S] : k \in 0..n}

\* ------------------------------------------------------------ environment
VARIABLES
    environ,      \* os.environ restricted to LTTNG_HOME and HOME (unset = absent)
    files,        \* regular files on disk: path -> content
    procTable,    \* the process table: pid -> command name
    pureOut       \* what the last standalone call (probe, planner, start, stop,
                  \* destroy) made and gave its caller

envVars == <<environ, files, procTable>>

LttngSessiond == <<"l","t","t","n","g","-","s","e","s","s","i","o","n","d">>
OtherComm == <<"b","a","s","h">>
Comms == {LttngSessiond, OtherComm}
Pids == {1, 10}

\* os.path.join(a, b) for a relative b and a directory a without trailing "/".
JoinPath(a, b) == a \o "/" \o b

PidFileName == ".lttng/lttng-sessiond.pid"

\* os.environ.get(name)
EnvironGet(env, name) == IF name \in DOMAIN env THEN Some(env[name]) ELSE NoneVal

\* Python truthiness of an Optional[str].
Truthy(o) == ~o.isNone /\ o.value # ""

\* get_lttng_home: $LTTNG_HOME, or $HOME when that is unset or empty.
get_lttng_home(env) ==
    IF Truthy(EnvironGet(env, "LTTNG_HOME"))
    THEN EnvironGet(env, "LTTNG_HOME")
    ELSE EnvironGet(env, "HOME")

\* get_session_daemon_pid
get_session_daemon_pid(env, fs) ==
    LET lttng_home == get_lttng_home(env) IN
    IF ~Truthy(lttng_home) THEN NoneVal
    ELSE LET lttng_sessiond_pid == JoinPath(lttng_home.value, PidFileName) IN
         IF lttng_sessiond_pid \notin DOMAIN fs THEN NoneVal
         ELSE LET pid == Strip(fs[lttng_sessiond_pid]) IN
              IF ~IsDigit(pid) THEN NoneVal ELSE Some(ParseInt(pid))

\* subprocess.run('ps -o comm= <pid>'): exit status 1 and no output when no
\* process has that PID, else the command name on a line of its own.
PsComm(procs, pid) ==
    IF pid \in DOMAIN procs
    THEN [returncode |-> 0, stdout |-> procs[pid] \o <<"\n">>]
    ELSE [returncode |-> 1, stdout |-> <<>>]

\* Mutation: the output of ps is compared without stripping its newline.
is_session_daemon_unreachable_unstripped(env, fs, procs) ==
    LET pid == get_session_daemon_pid(env, fs) IN
    IF pid.isNone THEN [result |-> FALSE, ps |-> <<>>]
    ELSE LET process == PsComm(procs, pid.value) IN
         [result |-> (1 = process.returncode \/ LttngSessiond # process.stdout),
          ps |-> <<pid.value>>]

\* is_session_daemon_unreachable; ps lists the PIDs ps was run for.
is_session_daemon_unreachable(env, fs, procs) ==
    LET pid == get_session_daemon_pid(env, fs) IN
    IF pid.isNone THEN [result |-> FALSE, ps |-> <<>>]
    ELSE LET process == PsComm(procs, pid.value) IN
         [result |-> (1 = process.returncode
                        \/ LttngSessiond # Strip(process.stdout)),
          ps |-> <<pid.value>>]

\* ------------------------------------------------------- context planner
Domains == <<"kernel", "userspace">>
DomainSet == {"kernel", "userspace"}

\* names.CONTEXT_TYPE_CONSTANTS_MAP: field name -> name of the lttng constant
\* (None for a field the lttng module has no constant for).
CONTEXT_TYPE_CONSTANTS_MAP ==
    [pid |-> Some("EVENT_CONTEXT_PID"),
     procname |-> Some("EVENT_CONTEXT_PROCNAME"),
     ip |-> Some("EVENT_CONTEXT_IP"),
     callstack |-> NoneVal]

\* The field names callers pass: two that resolve, one whose constant the
\* lttng module lacks, one the table maps to None, one not in the table.
FieldNames == {"pid", "procname", "ip", "callstack", "bogus"}

\* The constants the installed lttng module defines.
LttngConstants == {"EVENT_CONTEXT_PID", "EVENT_CONTEXT_PROCNAME"}

\* getattr(lttng, name_constant, None) if name_constant is not None else None
ContextMapEntry(name_constant) ==
    IF name_constant.isNone THEN NoneVal
    ELSE IF name_constant.value \in LttngConstants THEN name_constant
    ELSE NoneVal

\* context_map
context_map ==
    [name \in DOMAIN CONTEXT_TYPE_CONSTANTS_MAP |->
        ContextMapEntry(CONTEXT_TYPE_CONSTANTS_MAP[name])]

\* _context_field_name_to_type: context_map.get(name, None)
_context_field_name_to_type(context_field_name) ==
    IF context_field_name \in DOMAIN context_map
    THEN context_map[context_field_name]
    ELSE NoneVal

Range(f) == {f[i] : i \in DOMAIN f}

\* The orders in which a Python set may be iterated: every arrangement of
\* its elements without repetition.
Orders(S) ==
    {q \in [1..Cardinality(S) -> S] : \A i, j \in 1..Cardinality(S) : q[i] = q[j] => i = j}

Raise(type, msg, arg) == [ok |-> FALSE, type |-> type, msg |-> msg, arg |-> arg]

\* Mutation: the error names whichever field the loop is at, resolvable or
\* not.
_create_context_list_names_any_field(context_fields) ==
    LET bad == {n \in context_fields : _context_field_name_to_type(n).isNone} IN
    IF bad # {}
    THEN {Raise("RuntimeError", "failed to find context type", n) : n \in context_fields}
    ELSE {[ok |-> TRUE,
           list |-> [i \in DOMAIN q |-> _context_field_name_to_type(q[i]).value]] :
            q \in Orders(context_fields)}

\* _create_context_list: the outcomes over the iteration orders of the set.
\* A name that does not resolve raises at the first such name met.
_create_context_list(context_fields) ==
    LET bad == {n \in context_fields : _context_field_name_to_type(n).isNone} IN
    IF bad # {}
    THEN {Raise("RuntimeError", "failed to find context type", n) : n \in bad}
    ELSE {[ok |-> TRUE,
           list |-> [i \in DOMAIN q |-> _context_field_name_to_type(q[i]).value]] :
            q \in Orders(context_fields)}

\* Mutation: a flat set is applied to the kernel domain only.
ContextsForKernelOnly(d, context_fields) ==
    IF context_fields.shape = "set"
    THEN _create_context_list(IF d = "kernel" THEN context_fields.fields ELSE {})
    ELSE IF d \in DOMAIN context_fields.map
    THEN _create_context_list(Range(context_fields.map[d]))
    ELSE {Raise("KeyError", "", d)}

\* One entry of the comprehension of _normalize_contexts_dict, for domain d.
ContextsFor(d, context_fields) ==
    IF context_fields.shape = "set"
    THEN _create_context_list(context_fields.fields)
    ELSE IF d \in DOMAIN context_fields.map
    THEN _create_context_list(Range(context_fields.map[d]))
    ELSE {Raise("KeyError", "", d)}

\* The dict comprehension over the enabled domains ds, in dict order; it
\* stops at the first entry that raises.
RECURSIVE BuildContextsDict(_, _, _)
BuildContextsDict(ds, handles, context_fields) ==
    IF ds = <<>> THEN {[ok |-> TRUE, dict |-> <<>>]}
    ELSE UNION {
        IF ~f.ok THEN {f}
        ELSE {IF ~r.ok THEN r
              ELSE [ok |-> TRUE,
                    dict |-> <<[handle |-> handles[Head(ds)].value,
                                contexts |-> f.list]>> \o r.dict] :
                r \in BuildContextsDict(Tail(ds), handles, context_fields)} :
        f \in ContextsFor(Head(ds), context_fields)}

\* Mutation: every name given is looked up before the domains without a
\* handle are dropped.
_normalize_contexts_dict_resolving_first(handles, context_fields) ==
    LET enabled == SelectSeq(Domains, LAMBDA d : ~handles[d].isNone)
        names == IF context_fields.shape = "set" THEN context_fields.fields
                 ELSE IF context_fields.shape = "dict"
                 THEN UNION {Range(context_fields.map[d]) : d \in DOMAIN context_fields.map}
                 ELSE {}
        failed == {r \in _create_context_list(names) : ~r.ok} IN
    IF context_fields.shape \in {"set", "dict"}
    THEN IF failed # {} THEN failed
         ELSE BuildContextsDict(enabled, handles, context_fields)
    ELSE {Raise("AssertionError", "", "")}

\* _normalize_contexts_dict: handles maps each domain to Optional[handle].
_normalize_contexts_dict(handles, context_fields) ==
    LET enabled == SelectSeq(Domains, LAMBDA d : ~handles[d].isNone) IN
    IF context_fields.shape \in {"set", "dict"}
    THEN BuildContextsDict(enabled, handles, context_fields)
    ELSE {Raise("AssertionError", "", "")}

\* ------------------------------------------------------------------ setup
VARIABLES
    pc,           \* where the running setup call is ("idle" between calls,
                  \* "lifecycle" when a start, stop or destroy call has ended)
    args,         \* the arguments of the running setup call
    dirs,         \* the directories that exist on disk
    daemonAlive,  \* whether the client reports a live session daemon
    sessions,     \* the names of the sessions the daemon holds
    calls,        \* the external calls the running setup call has made, in order
    full_path,    \* setup's local full_path
    evl,          \* events_list_ust / events_list_kernel, by domain
    handles,      \* handle_ust / handle_kernel, by domain
    cur,          \* the domain whose handle/channel/events step is running
    todo,         \* what the running loop has still to iterate over
    outcome,      \* how the setup call ended: raised error or returned value
    life,         \* what has happened to the session so far (history)
    callers       \* the concurrent callers of _create_session

setupVars == <<pc, args, dirs, daemonAlive, sessions, calls, full_path, evl,
               handles, cur, todo, outcome>>
clientVars == <<life, callers>>
vars == <<environ, files, procTable, pureOut, pc, args, dirs, daemonAlive,
          sessions, calls, full_path, evl, handles, cur, todo, outcome,
          life, callers>>

EventPool == <<"e1", "e2", "e3", "e4">>
RosEventNames == {EventPool[i] : i \in 1..MaxEvents}
SessionNames == {"", "s1"}
BasePaths == {"/tmp"}
channel_name_ust == "ros2"
channel_name_kernel == "kchan"
ChannelName(d) == IF d = "userspace" THEN channel_name_ust ELSE channel_name_kernel

Call(op, arg, res) == [op |-> op, arg |-> arg, res |-> res]
Log(c) == calls' = Append(calls, c)

NoOutcome == [status |-> "none"]
Raised(type, msg, arg) == [status |-> "raised", type |-> type, msg |-> msg, arg |-> arg]
Returned(v) == [status |-> "returned", value |-> v]

NoHandles == [d \in DomainSet |-> NoneVal]
NoEvents == [d \in DomainSet |-> <<>>]

\* Mutation: the error is noted and setup goes on to the contexts.
FailAndGoOn(type, msg, arg) ==
    /\ pc' = "normalize"
    /\ outcome' = Raised(type, msg, arg)

\* raise: the call ends, nothing else of setup runs.
Fail(type, msg, arg) ==
    /\ pc' = "raised"
    /\ outcome' = Raised(type, msg, arg)

\* The shapes of context_fields a caller may pass.
CtxSet(S) == [shape |-> "set", fields |-> S]
CtxList(q) == [shape |-> "list", list |-> q]
CtxDict(m) == [shape |-> "dict", map |-> m]
CtxOther == [shape |-> "other"]

\* lines 227-228: a list of context fields becomes a set.
CoerceContextFields(cf) ==
    IF cf.shape = "list" THEN CtxSet(Range(cf.list)) ELSE cf

\* The arguments setup is called with.  An events argument is a list; a
\* caller's set is a list without repetition.
RosEventInputs ==
    {SubSeq(EventPool, 1, k) : k \in 0..MaxEvents} \cup {<<"e1", "e1">>}
KernelEventInputs == {<<>>, <<"k1">>}
SetupFieldNames == {"pid", "bogus"}
SetupContextInputs ==
    {CtxSet(S) : S \in SUBSET SetupFieldNames}
      \cup {CtxList(<<"pid", "pid">>)}
      \cup {CtxDict(m) : m \in UNION {[D -> {<<"pid">>, <<"bogus">>}] :
                                        D \in SUBSET DomainSet}}
SetupArgs ==
    [session_name : SessionNames, base_path : BasePaths, append_trace : BOOLEAN,
     ros_events : RosEventInputs, kernel_events : KernelEventInputs,
     context_fields : SetupContextInputs]

\* Mutation: the empty name is not rejected.
ValidateWithoutNameCheck(session_name, base_path, append_trace, existing) ==
    LET path == JoinPath(base_path, session_name)
        isdir == path \in existing IN
    [raise |-> isdir /\ ~append_trace,
     msg |-> "trace directory already exists", arg |-> path,
     path |-> path, calls |-> <<Call("isdir", path, IF isdir THEN 1 ELSE 0)>>]

\* Mutation: an existing directory is never refused.
ValidateWithoutDirectoryCheck(session_name, base_path, append_trace, existing) ==
    IF session_name = ""
    THEN [raise |-> TRUE, msg |-> "empty session name", arg |-> "",
          path |-> "", calls |-> <<>>]
    ELSE LET path == JoinPath(base_path, session_name)
             isdir == path \in existing IN
         [raise |-> FALSE,
          msg |-> "trace directory already exists", arg |-> path,
          path |-> path, calls |-> <<Call("isdir", path, IF isdir THEN 1 ELSE 0)>>]

\* Mutation: an existing directory is refused even when appending.
ValidateIgnoringAppend(session_name, base_path, append_trace, existing) ==
    IF session_name = ""
    THEN [raise |-> TRUE, msg |-> "empty session name", arg |-> "",
          path |-> "", calls |-> <<>>]
    ELSE LET path == JoinPath(base_path, session_name)
             isdir == path \in existing IN
         [raise |-> isdir,
          msg |-> "trace directory already exists", arg |-> path,
          path |-> path, calls |-> <<Call("isdir", path, IF isdir THEN 1 ELSE 0)>>]

\* lines 183-189: validate the name, resolve the directory, refuse an
\* existing directory unless appending.  isdir(p) is asked only when the
\* name is not empty.
Validate(session_name, base_path, append_trace, existing) ==
    IF session_name = ""
    THEN [raise |-> TRUE, msg |-> "empty session name", arg |-> "",
          path |-> "", calls |-> <<>>]
    ELSE LET path == JoinPath(base_path, session_name)
             isdir == path \in existing IN
         [raise |-> isdir /\ ~append_trace,
          msg |-> "trace directory already exists", arg |-> path,
          path |-> path, calls |-> <<Call("isdir", path, IF isdir THEN 1 ELSE 0)>>]

SetupBegin ==
    /\ pc = "idle"
    /\ \E a \in SetupArgs :
        LET v == Validate(a.session_name, a.base_path, a.append_trace, dirs) IN
        /\ args' = a
        /\ full_path' = v.path
        /\ calls' = v.calls
        /\ IF v.raise
           THEN Fail("RuntimeError", v.msg, v.arg)
           ELSE pc' = "alive1" /\ outcome' = NoOutcome
    /\ evl' = NoEvents /\ handles' = NoHandles /\ cur' = "" /\ todo' = <<>>
    /\ UNCHANGED <<dirs, daemonAlive, sessions, envVars, pureOut, clientVars>>

\* lttng.session_daemon_alive()
SessionDaemonAlive == IF daemonAlive THEN 1 ELSE 0

\* Mutation: a daemon is spawned whatever the liveness query said.
AlwaysSpawn(alive) == TRUE

\* line 192: spawn a daemon only when none is reported alive.
NeedSpawn(alive) == alive = 0

\* line 192: the first liveness query decides whether to spawn.
DaemonAlive1 ==
    /\ pc = "alive1"
    /\ Log(Call("session_daemon_alive", "", SessionDaemonAlive))
    /\ pc' = IF NeedSpawn(SessionDaemonAlive) THEN "spawn" ELSE "phantom"
    /\ UNCHANGED <<args, dirs, daemonAlive, sessions, full_path, evl, handles,
                   cur, todo, outcome, envVars, pureOut, clientVars>>

DigitChar(d) == IF d = 0 THEN "0" ELSE "1"

\* The decimal text of a PID whose digits are in Digits.
RECURSIVE DecimalText(_)
DecimalText(n) ==
    IF n < 10 THEN <<DigitChar(n)>>
    ELSE DecimalText(n \div 10) \o <<DigitChar(n % 10)>>

\* lines 193-195: run lttng-sessiond --daemonize; its result is not looked
\* at.  Exit status 0 means a daemon started; with a non-zero status a
\* daemon may still be up (one started at the same moment by someone else).
\* A daemon that is up has a free PID and records it under the LTTng home.
SpawnDaemon ==
    /\ pc = "spawn"
    /\ \E returncode \in {0, 1}, up \in BOOLEAN, p \in Pids :
        /\ returncode = 0 => up
        /\ up => p \notin DOMAIN procTable
        /\ Log(Call("spawn", "lttng-sessiond", returncode))
        /\ IF up
           THEN /\ daemonAlive' = TRUE
                /\ procTable' = [x \in DOMAIN procTable \cup {p} |->
                                   IF x = p THEN LttngSessiond ELSE procTable[x]]
                /\ LET home == get_lttng_home(environ) IN
                   IF Truthy(home)
                   THEN LET f == JoinPath(home.value, PidFileName) IN
                        files' = [x \in DOMAIN files \cup {f} |->
                                    IF x = f THEN DecimalText(p) \o <<"\n">>
                                    ELSE files[x]]
                   ELSE files' = files
           ELSE UNCHANGED <<daemonAlive, procTable, files>>
    /\ pc' = "phantom"
    /\ UNCHANGED <<args, dirs, sessions, full_path, evl, handles, cur, todo,
                   outcome, environ, pureOut, clientVars>>

\* lines 197-203: a recorded daemon that cannot be reached is fatal.
PhantomCheck ==
    /\ pc = "phantom"
    /\ LET r == is_session_daemon_unreachable(environ, files, procTable) IN
        /\ Log(Call("is_session_daemon_unreachable", r.ps, IF r.result THEN 1 ELSE 0))
        /\ IF r.result
           THEN Fail("RuntimeError", "lttng-sessiond seems to exist, but is unreachable", "")
           ELSE pc' = "alive2" /\ outcome' = outcome
    /\ UNCHANGED <<args, dirs, daemonAlive, sessions, full_path, evl, handles,
                   cur, todo, envVars, pureOut, clientVars>>

\* Mutation: the kernel tracer is probed whatever the kernel events are.
AlwaysProbeKernel(kernel_events) == TRUE

\* line 210: the kernel tracer is probed when there are kernel events.
NeedKernelProbe(kernel_events) == 0 < Len(kernel_events)

\* lines 205-210: still no daemon is fatal; the kernel tracer is probed only
\* when there are kernel events.
DaemonAlive2 ==
    /\ pc = "alive2"
    /\ Log(Call("session_daemon_alive", "", SessionDaemonAlive))
    /\ IF SessionDaemonAlive = 0
       THEN Fail("RuntimeError", "failed to start lttng session daemon", "")
       ELSE /\ pc' = IF NeedKernelProbe(args.kernel_events) THEN "kprobe" ELSE "create"
            /\ outcome' = outcome
    /\ UNCHANGED <<args, dirs, daemonAlive, sessions, full_path, evl, handles,
                   cur, todo, envVars, pureOut, clientVars>>

\* Mutation: the exit status of lttng list -k is not looked at.
is_kernel_tracer_available_unchecked(returncode) == TRUE

\* lines 70-72: is_kernel_tracer_available from the exit status of
\* lttng list -k.
is_kernel_tracer_available(returncode) == ~(0 # returncode)

\* lines 57-72 and 211-220: lttng list -k; a non-zero exit is fatal.
KernelTracerCheck ==
    /\ pc = "kprobe"
    /\ \E returncode \in {0, 1} :
        /\ Log(Call("is_kernel_tracer_available", "", returncode))
        /\ IF ~is_kernel_tracer_available(returncode)
           THEN Fail("RuntimeError", "kernel tracer is not available", "")
           ELSE pc' = "create" /\ outcome' = outcome
    /\ UNCHANGED <<args, dirs, daemonAlive, sessions, full_path, evl, handles,
                   cur, todo, envVars, pureOut, clientVars>>

\* Mutation: the kernel domain is configured first.
StepAfterCreateKernelFirst(e) ==
    IF e["kernel"] # <<>> THEN [pc |-> "handle", cur |-> "kernel"]
    ELSE IF e["userspace"] # <<>> THEN [pc |-> "handle", cur |-> "userspace"]
    ELSE [pc |-> "normalize", cur |-> ""]

\* The step after session creation, and after a domain's events: the
\* userspace domain first, then the kernel domain, then the contexts.
StepAfterCreate(e) ==
    IF e["userspace"] # <<>> THEN [pc |-> "handle", cur |-> "userspace"]
    ELSE IF e["kernel"] # <<>> THEN [pc |-> "handle", cur |-> "kernel"]
    ELSE [pc |-> "normalize", cur |-> ""]

\* Mutation: the kernel domain is configured whether or not there are kernel
\* events.
StepAfterEventsAlwaysKernel(d, e) ==
    IF d = "userspace"
    THEN [pc |-> "handle", cur |-> "kernel"]
    ELSE [pc |-> "normalize", cur |-> ""]

StepAfterEvents(d, e) ==
    IF d = "userspace" /\ e["kernel"] # <<>>
    THEN [pc |-> "handle", cur |-> "kernel"]
    ELSE [pc |-> "normalize", cur |-> ""]

\* What lttng.create with result r leaves in the daemon and on disk: success
\* adds the session and its directory; "already exists" means the daemon
\* holds a session of that name.
DaemonAfterCreate(name, r) ==
    IF r = 0 \/ r = AlreadyExists THEN sessions \cup {name} ELSE sessions

\* The results lttng.create may give: never success for a name the daemon
\* already holds.
CreateResults(name) == {r \in ResultCodes : r = 0 => name \notin sessions}

\* lines 222-273 and 379-381, 386-387: build the event lists, then the first
\* lttng.create.
CreateSession ==
    /\ pc = "create"
    /\ \E eu \in Orders(Range(args.ros_events)),
          ek \in Orders(Range(args.kernel_events)),
          result \in CreateResults(args.session_name) :
        LET e == [d \in DomainSet |-> IF d = "userspace" THEN eu ELSE ek]
            next == StepAfterCreate(e) IN
        /\ evl' = e
        /\ Log(Call("create", full_path, result))
        /\ sessions' = DaemonAfterCreate(args.session_name, result)
        /\ dirs' = IF result = 0 THEN dirs \cup {full_path} ELSE dirs
        /\ IF AlreadyExists = result
           THEN pc' = "destroy_stale" /\ cur' = cur /\ outcome' = outcome
           ELSE IF result < 0
           THEN Fail("RuntimeError", "session creation failed", result) /\ cur' = cur
           ELSE pc' = next.pc /\ cur' = next.cur /\ outcome' = outcome
    /\ UNCHANGED <<args, daemonAlive, full_path, handles, todo, envVars, pureOut, clientVars>>

\* Mutation: the stale session is destroyed with ignore_error=True.
StaleDestroyIgnoresErrors == TRUE

\* line 384: destroy is called without ignore_error, which defaults to False
\* (line 334).
StaleDestroyIgnoreError == FALSE

\* lines 384 and 345-347: destroy the stale session; a negative result
\* raises unless ignored.
DestroyStale ==
    /\ pc = "destroy_stale"
    /\ \E result \in {r \in ResultCodes : r = 0 => args.session_name \in sessions} :
        LET ignore_error == StaleDestroyIgnoreError IN
        /\ Log(Call("destroy", args.session_name, result))
        /\ sessions' = IF result = 0 THEN sessions \ {args.session_name} ELSE sessions
        /\ IF result < 0 /\ ~ignore_error
           THEN Fail("RuntimeError", "failed to destroy tracing session", result)
           ELSE pc' = "create_retry" /\ outcome' = outcome
    /\ UNCHANGED <<args, dirs, daemonAlive, full_path, evl, handles, cur, todo,
                   envVars, pureOut, clientVars>>

\* lines 385-387: the one retry of lttng.create.
CreateRetry ==
    /\ pc = "create_retry"
    /\ \E result \in CreateResults(args.session_name) :
        LET next == StepAfterCreate(evl) IN
        /\ Log(Call("create", full_path, result))
        /\ sessions' = DaemonAfterCreate(args.session_name, result)
        /\ dirs' = IF result = 0 THEN dirs \cup {full_path} ELSE dirs
        /\ IF result < 0
           THEN Fail("RuntimeError", "session creation failed", result) /\ cur' = cur
           ELSE pc' = next.pc /\ cur' = next.cur /\ outcome' = outcome
    /\ UNCHANGED <<args, daemonAlive, full_path, evl, handles, todo, envVars, pureOut, clientVars>>

\* lines 278/283 and 401-405: lttng.Handle for the current domain; None is
\* fatal.
CreateHandle ==
    /\ pc = "handle"
    /\ \E handle \in {NoneVal, Some([session |-> args.session_name, domain |-> cur])} :
        /\ Log(Call("Handle", cur, IF handle.isNone THEN 0 ELSE 1))
        /\ IF handle.isNone
           THEN Fail("RuntimeError", "handle creation failed", "") /\ handles' = handles
           ELSE /\ handles' = [handles EXCEPT ![cur] = handle]
                /\ pc' = "channel"
                /\ outcome' = outcome
    /\ UNCHANGED <<args, dirs, daemonAlive, sessions, full_path, evl, cur, todo,
                   envVars, pureOut, clientVars>>

\* The result codes of the calls other than create.
CallResults == ResultCodes \ {AlreadyExists}

\* lines 279/284 and 418-420: lttng.enable_channel for the current domain.
EnableChannel ==
    /\ pc = "channel"
    /\ \E result \in CallResults :
        /\ Log(Call("enable_channel", <<cur, ChannelName(cur)>>, result))
        /\ IF result < 0
           THEN Fail("RuntimeError", "channel enabling failed", result) /\ todo' = todo
           ELSE pc' = "events" /\ todo' = evl[cur] /\ outcome' = outcome
    /\ UNCHANGED <<args, dirs, daemonAlive, sessions, full_path, evl, handles, cur,
                   envVars, pureOut, clientVars>>

\* Mutation: the result of lttng.enable_event is not looked at.
EnableEventUnchecked(result) == FALSE

\* line 437: a negative result of lttng.enable_event is a failure.
EnableEventFailed(result) == result < 0

\* lines 280/285 and 435-438: one iteration of _enable_events; the first
\* negative result raises.
EnableEvent ==
    /\ pc = "events"
    /\ todo # <<>>
    /\ \E result \in CallResults :
        LET next == IF Tail(todo) # <<>> THEN [pc |-> "events", cur |-> cur]
                    ELSE StepAfterEvents(cur, evl) IN
        /\ Log(Call("enable_event", <<cur, Head(todo), ChannelName(cur)>>, result))
        /\ IF EnableEventFailed(result)
           THEN Fail("RuntimeError", "event enabling failed", result)
                /\ todo' = todo /\ cur' = cur
           ELSE pc' = next.pc /\ cur' = next.cur /\ todo' = Tail(todo)
                /\ outcome' = outcome
    /\ UNCHANGED <<args, dirs, daemonAlive, sessions, full_path, evl, handles,
                   envVars, pureOut, clientVars>>

\* The (handle, context) pairs in the order _add_context visits them.
RECURSIVE Flatten(_)
Flatten(dict) ==
    IF dict = <<>> THEN <<>>
    ELSE [i \in DOMAIN Head(dict).contexts |->
            [handle |-> Head(dict).handle, context |-> Head(dict).contexts[i]]]
         \o Flatten(Tail(dict))

\* lines 288-289 (with the coercion of lines 227-228): build the contexts
\* dict; no call to the daemon is made here.  With nothing to add, line 292
\* returns full_path.
NormalizeContexts ==
    /\ pc = "normalize"
    /\ \E o \in _normalize_contexts_dict(handles, CoerceContextFields(args.context_fields)) :
        IF ~o.ok
        THEN Fail(o.type, o.msg, o.arg) /\ todo' = todo
        ELSE /\ todo' = Flatten(o.dict)
             /\ IF Flatten(o.dict) = <<>>
                THEN pc' = "returned" /\ outcome' = Returned(full_path)
                ELSE pc' = "add_context" /\ outcome' = outcome
    /\ UNCHANGED <<args, dirs, daemonAlive, sessions, calls, full_path, evl, handles,
                   cur, envVars, pureOut, clientVars>>

\* lines 290 and 512-517: one lttng.add_context; the first negative result
\* raises; after the last one line 292 returns full_path.
AddContext ==
    /\ pc = "add_context"
    /\ todo # <<>>
    /\ \E result \in CallResults :
        /\ Log(Call("add_context", <<Head(todo).handle.domain, Head(todo).context>>, result))
        /\ IF result < 0
           THEN Fail("RuntimeError", "failed to add context field", Head(todo).context)
                /\ todo' = todo
           ELSE /\ todo' = Tail(todo)
                /\ IF Tail(todo) = <<>>
                   THEN pc' = "returned" /\ outcome' = Returned(full_path)
                   ELSE pc' = "add_context" /\ outcome' = outcome
    /\ UNCHANGED <<args, dirs, daemonAlive, sessions, full_path, evl, handles, cur,
                   envVars, pureOut, clientVars>>

NoArgs ==
    [session_name |-> "", base_path |-> "", append_trace |-> FALSE,
     ros_events |-> <<>>, kernel_events |-> <<>>, context_fields |-> CtxSet({})]

\* The call is over: the caller has the error or the path, and setup's
\* locals are gone.
SetupEnd ==
    /\ pc \in {"raised", "returned"}
    /\ pc' = "idle"
    /\ args' = NoArgs /\ calls' = <<>> /\ full_path' = "" /\ evl' = NoEvents
    /\ handles' = NoHandles /\ cur' = "" /\ todo' = <<>> /\ outcome' = NoOutcome
    /\ life' = IF pc = "returned" THEN "created" ELSE life
    /\ UNCHANGED <<dirs, daemonAlive, sessions, envVars, pureOut, callers>>

\* ------------------------------------------------- start, stop and destroy
\* lines 307-309: start raises on a negative result.
start(result) ==
    [raise |-> result < 0, msg |-> "failed to start tracing"]

\* Mutation: stop raises on a negative result whatever ignore_error says.
stop_ignoring_the_flag(result, ignore_error) ==
    [raise |-> result < 0, msg |-> "failed to stop tracing"]

\* lines 326-328: stop raises on a negative result unless ignore_error.
stop(result, ignore_error) ==
    [raise |-> result < 0 /\ ~ignore_error, msg |-> "failed to stop tracing"]

\* lines 345-347: destroy raises on a negative result unless ignore_error.
destroy(result, ignore_error) ==
    [raise |-> result < 0 /\ ~ignore_error, msg |-> "failed to destroy tracing session"]

\* The results the daemon may give for a call that names a session: never
\* success for a session it does not hold.
SessionCallResults(name) == {r \in CallResults : r = 0 => name \in sessions}

\* What a finished call of start, stop or destroy leaves for its caller.
LifecycleCall(op, session_name, ignore_error, result, decision) ==
    [op |-> op, session_name |-> session_name, ignore_error |-> ignore_error,
     calls |-> <<Call(op, session_name, result)>>,
     outcome |-> IF decision.raise
                 THEN Raised("RuntimeError", decision.msg, result)
                 ELSE Returned(NoneVal)]

\* lines 295-309: start(session_name).
Start ==
    /\ pc = "idle"
    /\ \E session_name \in SessionNames :
       \E result \in SessionCallResults(session_name) :
        pureOut' = LifecycleCall("start", session_name, FALSE, result, start(result))
    /\ pc' = "lifecycle"
    /\ UNCHANGED <<args, dirs, daemonAlive, sessions, calls, full_path, evl, handles,
                   cur, todo, outcome, envVars, clientVars>>

\* lines 312-328: stop(session_name, ignore_error).
Stop ==
    /\ pc = "idle"
    /\ \E session_name \in SessionNames, ignore_error \in BOOLEAN :
       \E result \in SessionCallResults(session_name) :
        pureOut' = LifecycleCall("stop", session_name, ignore_error, result,
                                 stop(result, ignore_error))
    /\ pc' = "lifecycle"
    /\ UNCHANGED <<args, dirs, daemonAlive, sessions, calls, full_path, evl, handles,
                   cur, todo, outcome, envVars, clientVars>>

\* lines 331-347: destroy(session_name, ignore_error).  A destroy that
\* succeeds removes the session from the daemon; the trace directory stays.
Destroy ==
    /\ pc = "idle"
    /\ \E session_name \in SessionNames, ignore_error \in BOOLEAN :
       \E result \in SessionCallResults(session_name) :
        /\ pureOut' = LifecycleCall("destroy", session_name, ignore_error, result,
                                    destroy(result, ignore_error))
        /\ sessions' = IF result = 0 THEN sessions \ {session_name} ELSE sessions
        /\ life' = IF result = 0 /\ life = "created" THEN "destroyed" ELSE life
    /\ pc' = "lifecycle"
    /\ UNCHANGED <<args, dirs, daemonAlive, calls, full_path, evl, handles,
                   cur, todo, outcome, envVars, callers>>

\* The call of start, stop or destroy is over.
LifecycleEnd ==
    /\ pc = "lifecycle"
    /\ pc' = "idle"
    /\ pureOut' = NoneVal
    /\ UNCHANGED <<args, dirs, daemonAlive, sessions, calls, full_path, evl, handles,
                   cur, todo, outcome, envVars, clientVars>>

\* ------------------------------------------------------ concurrent callers
\* Two setup calls for the same session name run at the same time, in two
\* processes, against one daemon.  The daemon takes one call at a time, so
\* each call of lttng.create or lttng.destroy is one step.  Of each setup
\* call the part that talks about the session itself is followed,
\* _create_session; what comes after it is one step.
Callers == {"a", "b"}
IdleCaller == [pc |-> "idle", calls |-> <<>>, outcome |-> NoOutcome]
NoCallers == [c \in Callers |-> IdleCaller]
ConcSessionName == "s1"
ConcFullPath == JoinPath("/tmp", ConcSessionName)

\* Caller c makes call k and goes on at p with outcome o.
CallerStep(c, k, p, o) ==
    callers' = [callers EXCEPT ![c] =
                  [pc |-> p, calls |-> Append(callers[c].calls, k), outcome |-> o]]

\* line 273: caller c's setup call has reached _create_session.
ConcBegin(c) ==
    /\ callers[c].pc = "idle"
    /\ callers' = [callers EXCEPT ![c].pc = "create"]
    /\ UNCHANGED <<envVars, setupVars, pureOut, life>>

\* lines 379-381 and 386-387: caller c's first lttng.create.
ConcCreate(c) ==
    /\ callers[c].pc = "create"
    /\ \E result \in CreateResults(ConcSessionName) :
        /\ sessions' = DaemonAfterCreate(ConcSessionName, result)
        /\ dirs' = IF result = 0 THEN dirs \cup {ConcFullPath} ELSE dirs
        /\ IF AlreadyExists = result
           THEN CallerStep(c, Call("create", ConcFullPath, result),
                           "destroy_stale", NoOutcome)
           ELSE IF result < 0
           THEN CallerStep(c, Call("create", ConcFullPath, result), "raised",
                           Raised("RuntimeError", "session creation failed", result))
           ELSE CallerStep(c, Call("create", ConcFullPath, result), "created", NoOutcome)
    /\ UNCHANGED <<pc, args, daemonAlive, calls, full_path, evl, handles, cur, todo,
                   outcome, envVars, pureOut, life>>

\* lines 384 and 345-347: caller c destroys the session that exists.
ConcDestroyStale(c) ==
    /\ callers[c].pc = "destroy_stale"
    /\ \E result \in {r \in ResultCodes : r = 0 => ConcSessionName \in sessions} :
        LET decision == destroy(result, StaleDestroyIgnoreError) IN
        /\ sessions' = IF result = 0 THEN sessions \ {ConcSessionName} ELSE sessions
        /\ IF decision.raise
           THEN CallerStep(c, Call("destroy", ConcSessionName, result), "raised",
                           Raised("RuntimeError", decision.msg, result))
           ELSE CallerStep(c, Call("destroy", ConcSessionName, result),
                           "create_retry", NoOutcome)
    /\ UNCHANGED <<pc, args, dirs, daemonAlive, calls, full_path, evl, handles, cur,
                   todo, outcome, envVars, pureOut, life>>

\* Mutation: a second "already exists" is answered like the first.
RetryAgainOnExists(result) == AlreadyExists = result

\* lines 385-387: the result of the second lttng.create is not compared with
\* -28; there is no further retry.
RetryAgain(result) == FALSE

\* lines 385-387: caller c's second lttng.create.
ConcCreateRetry(c) ==
    /\ callers[c].pc = "create_retry"
    /\ \E result \in CreateResults(ConcSessionName) :
        /\ sessions' = DaemonAfterCreate(ConcSessionName, result)
        /\ dirs' = IF result = 0 THEN dirs \cup {ConcFullPath} ELSE dirs
        /\ IF RetryAgain(result)
           THEN CallerStep(c, Call("create", ConcFullPath, result),
                           "destroy_stale", NoOutcome)
           ELSE IF result < 0
           THEN CallerStep(c, Call("create", ConcFullPath, result), "raised",
                           Raised("RuntimeError", "session creation failed", result))
           ELSE CallerStep(c, Call("create", ConcFullPath, result), "created", NoOutcome)
    /\ UNCHANGED <<pc, args, daemonAlive, calls, full_path, evl, handles, cur, todo,
                   outcome, envVars, pureOut, life>>

\* lines 275-292: the rest of caller c's setup call; it returns the path or
\* raises, and leaves the daemon's set of sessions as it is.
ConcConfigure(c) ==
    /\ callers[c].pc = "created"
    /\ \E ok \in BOOLEAN :
        callers' = [callers EXCEPT
                      ![c].pc = IF ok THEN "returned" ELSE "raised",
                      ![c].outcome = IF ok THEN Returned(ConcFullPath)
                                     ELSE Raised("RuntimeError", "", "")]
    /\ UNCHANGED <<envVars, setupVars, pureOut, life>>

\* A step of caller c's setup call once it has begun.
ConcStep(c) ==
    \/ ConcCreate(c)
    \/ ConcDestroyStale(c)
    \/ ConcCreateRetry(c)
    \/ ConcConfigure(c)

\* ------------------------------------------------------------ specification
HomeDir == "/h1"
PidPath == JoinPath(HomeDir, PidFileName)

\* The state before the first call: a daemon may or may not run, the trace
\* directory may be left over from an earlier run, and the PID file may be
\* absent, stale, or name a running daemon.
Init ==
    /\ environ = [HOME |-> HomeDir]
    /\ \E env \in {
            [files |-> <<>>, procs |-> <<>>],
            [files |-> [x \in {PidPath} |-> <<"1", "\n">>], procs |-> <<>>],
            [files |-> [x \in {PidPath} |-> <<"1", "\n">>],
             procs |-> [x \in {1} |-> LttngSessiond]]} :
        files = env.files /\ procTable = env.procs
    /\ pureOut = NoneVal
    /\ pc = "idle"
    /\ args = NoArgs
    /\ dirs \in SUBSET {JoinPath(b, n) : b \in BasePaths, n \in SessionNames \ {""}}
    /\ daemonAlive \in BOOLEAN
    /\ sessions = {}
    /\ calls = <<>>
    /\ full_path = ""
    /\ evl = NoEvents
    /\ handles = NoHandles
    /\ cur = ""
    /\ todo = <<>>
    /\ outcome = NoOutcome
    /\ life = "absent"
    /\ callers = NoCallers

Next ==
    \/ SetupBegin
    \/ DaemonAlive1
    \/ SpawnDaemon
    \/ PhantomCheck
    \/ DaemonAlive2
    \/ KernelTracerCheck
    \/ CreateSession
    \/ DestroyStale
    \/ CreateRetry
    \/ CreateHandle
    \/ EnableChannel
    \/ EnableEvent
    \/ NormalizeContexts
    \/ AddContext
    \/ SetupEnd
    \/ Start
    \/ Stop
    \/ Destroy
    \/ LifecycleEnd

Spec == Init /\ [][Next]_vars

\* ------------------------------------------- the probe, called on its own
ProbeHomes == {"/h1", "/h2"}
ProbeEnvirons ==
    UNION {[V -> ProbeHomes \cup {""}] : V \in SUBSET {"LTTNG_HOME", "HOME"}}
ProbeFiles ==
    {<<>>} \cup {[x \in {JoinPath(h, PidFileName)} |-> c] :
                    h \in ProbeHomes, c \in SeqsUpTo(PidChars, MaxPidLen)}
ProbeProcTables == UNION {[P -> Comms] : P \in SUBSET Pids}

IdleSetup ==
    /\ pc = "idle"
    /\ args = NoArgs
    /\ dirs = {}
    /\ daemonAlive = FALSE
    /\ sessions = {}
    /\ calls = <<>>
    /\ full_path = ""
    /\ evl = NoEvents
    /\ cur = ""
    /\ todo = <<>>
    /\ outcome = NoOutcome
    /\ life = "absent"
    /\ callers = NoCallers

InitProbe ==
    /\ environ \in ProbeEnvirons
    /\ files \in ProbeFiles
    /\ procTable \in ProbeProcTables
    /\ pureOut = NoneVal
    /\ handles = NoHandles
    /\ IdleSetup

\* A call of get_session_daemon_pid.
ProbePid ==
    /\ pureOut' = [op |-> "get_session_daemon_pid",
                   pid |-> get_session_daemon_pid(environ, files)]
    /\ UNCHANGED <<envVars, setupVars, clientVars>>

\* A call of is_session_daemon_unreachable.
ProbeUnreachable ==
    /\ pureOut' = [op |-> "is_session_daemon_unreachable",
                   out |-> is_session_daemon_unreachable(environ, files, procTable)]
    /\ UNCHANGED <<envVars, setupVars, clientVars>>

NextProbe == ProbePid \/ ProbeUnreachable

SpecProbe == InitProbe /\ [][NextProbe]_vars

\* ----------------------------------------- the planner, called on its own
PlannerHandles ==
    {[d \in DomainSet |->
        IF d \in E THEN Some([session |-> "s1", domain |-> d]) ELSE NoneVal] :
     E \in SUBSET DomainSet}
PlannerInputs ==
    {CtxSet(S) : S \in SUBSET FieldNames}
      \cup {CtxDict(m) : m \in UNION {[D -> SeqsUpTo(FieldNames, MaxFields)] :
                                        D \in SUBSET DomainSet}}
      \cup {CtxOther}

InitCtx ==
    /\ environ = <<>>
    /\ files = <<>>
    /\ procTable = <<>>
    /\ pureOut = NoneVal
    /\ handles \in PlannerHandles
    /\ \E cf \in PlannerInputs :
        /\ pc = "idle"
        /\ args = [NoArgs EXCEPT !.context_fields = cf]
        /\ dirs = {}
        /\ daemonAlive = FALSE
        /\ sessions = {}
        /\ calls = <<>>
        /\ full_path = ""
        /\ evl = NoEvents
        /\ cur = ""
        /\ todo = <<>>
        /\ outcome = NoOutcome
        /\ life = "absent"
        /\ callers = NoCallers

\* A call of _normalize_contexts_dict(handles, context_fields).
PlanContexts ==
    /\ \E o \in _normalize_contexts_dict(handles, args.context_fields) :
        pureOut' = [op |-> "_normalize_contexts_dict", out |-> o]
    /\ UNCHANGED <<envVars, setupVars, clientVars>>

NextCtx == PlanContexts

SpecCtx == InitCtx /\ [][NextCtx]_vars

\* ------------------------------------------------ two callers at one time
InitConc ==
    /\ environ = <<>>
    /\ files = <<>>
    /\ procTable = <<>>
    /\ pureOut = NoneVal
    /\ pc = "idle"
    /\ args = NoArgs
    /\ dirs = {}
    /\ daemonAlive = TRUE
    /\ sessions = {}
    /\ calls = <<>>
    /\ full_path = ""
    /\ evl = NoEvents
    /\ handles = NoHandles
    /\ cur = ""
    /\ todo = <<>>
    /\ outcome = NoOutcome
    /\ life = "absent"
    /\ callers = NoCallers

NextConc == \E c \in Callers : ConcBegin(c) \/ ConcStep(c)

\* Every call the daemon is given returns, so a caller that is in its setup
\* call takes its next step.
SpecConc ==
    InitConc /\ [][NextConc]_vars /\ \A c \in Callers : WF_vars(ConcStep(c))

\* ------------------------------------------------------------------ claims
\* The calls of the running setup call whose operation is in ops, in order.
CallsOf(ops) == SelectSeq(calls, LAMBDA c : c.op \in ops)
Count(ops) == Len(CallsOf(ops))
Finished == pc \in {"raised", "returned"}
LastCall == calls[Len(calls)]
DaemonOps ==
    {"create", "destroy", "Handle", "enable_channel", "enable_event", "add_context"}

\* What every form of the retry rule shares: at most create, destroy,
\* create, in that order; a destroy only after "already exists"; and a
\* negative second create ends the call with an error, no call after it.
RetryShape(cd) ==
    /\ Len(cd) <= 3
    /\ Len(cd) >= 1 => cd[1].op = "create"
    /\ Len(cd) >= 2 => cd[1].res = AlreadyExists /\ cd[2].op = "destroy"
    /\ Len(cd) >= 3 => cd[3].op = "create"
    /\ (Len(cd) >= 1 /\ cd[1].res # AlreadyExists /\ cd[1].res < 0) =>
          pc = "raised" /\ LastCall.op = "create" /\ Len(cd) = 1
    /\ (Len(cd) = 3 /\ cd[3].res < 0) => pc = "raised" /\ LastCall.op = "create"

\* C1 as stated: once setup has ended, a first create that returned -28 was
\* followed by exactly one destroy and exactly one more create; a second
\* negative create is fatal with nothing after it; a first create that did
\* not return -28 is the only create and no destroy was made.
C1_AsStated ==
    LET cd == CallsOf({"create", "destroy"}) IN
    /\ RetryShape(cd)
    /\ (Finished /\ Len(cd) >= 1 /\ cd[1].res = AlreadyExists) => Len(cd) = 3
    /\ (Finished /\ Len(cd) >= 1 /\ cd[1].res # AlreadyExists) => Len(cd) = 1

\* C1 amended: after a first create that returned -28 setup makes exactly one
\* destroy; the one further create follows exactly when that destroy did not
\* fail, and a failed destroy ends the call with an error and no second
\* create.  The rest is as stated.
C1_RetryOnce ==
    LET cd == CallsOf({"create", "destroy"}) IN
    /\ RetryShape(cd)
    /\ (Finished /\ Len(cd) >= 1 /\ cd[1].res = AlreadyExists) => Len(cd) >= 2
    /\ (Finished /\ Len(cd) >= 2 /\ cd[2].res >= 0) => Len(cd) = 3
    /\ Len(cd) = 3 => cd[2].res >= 0
    /\ (Len(cd) >= 2 /\ cd[2].res < 0) =>
          pc = "raised" /\ LastCall.op = "destroy" /\ Len(cd) = 2
    /\ (Finished /\ Len(cd) >= 1 /\ cd[1].res # AlreadyExists) => Len(cd) = 1

\* C1 witness: the retry also returned "already exists" and setup raised.
C1_Witness ==
    LET cd == CallsOf({"create", "destroy"}) IN
    /\ pc = "raised"
    /\ Len(cd) = 3
    /\ cd[1].res = AlreadyExists /\ cd[2].res = 0 /\ cd[3].res = AlreadyExists
    /\ outcome.msg = "session creation failed"

\* The field names a context_fields argument holds, whatever its shape.
GivenNames(cf) ==
    IF cf.shape = "set" THEN cf.fields
    ELSE IF cf.shape = "list" THEN Range(cf.list)
    ELSE IF cf.shape = "dict" THEN UNION {Range(cf.map[d]) : d \in DOMAIN cf.map}
    ELSE {}

Unresolved(n) == _context_field_name_to_type(n).isNone
ContextLookupFailed ==
    pc = "raised" /\ outcome.msg = "failed to find context type"

\* Domain d's channel and each of its distinct events were enabled with a
\* non-negative result.
DomainEnabled(d, events) ==
    /\ \E i \in DOMAIN calls :
          calls[i].op = "enable_channel" /\ calls[i].arg[1] = d /\ calls[i].res >= 0
    /\ \A e \in Range(events) : \E i \in DOMAIN calls :
          /\ calls[i].op = "enable_event"
          /\ calls[i].arg[1] = d /\ calls[i].arg[2] = e
          /\ calls[i].res >= 0

\* C2 as stated: when a context field name does not resolve, the error is
\* raised before any daemon call: no create, enableChannel, enableEvent or
\* addContext has been issued by that setup call.
C2_AsStated ==
    ContextLookupFailed =>
        Count({"create", "enable_channel", "enable_event", "add_context"}) = 0

\* C2 amended: the error names an unresolvable field of the configuration
\* and is raised before any addContext call, but after the calls that
\* precede context planning: session-create has succeeded and the channel
\* and every event of each enabled domain have been enabled.
C2_BeforeAddContext ==
    ContextLookupFailed =>
        /\ outcome.arg \in GivenNames(args.context_fields)
        /\ Unresolved(outcome.arg)
        /\ Count({"add_context"}) = 0
        /\ Count({"create"}) >= 1
        /\ CallsOf({"create"})[Count({"create"})].res >= 0
        /\ args.ros_events # <<>> => DomainEnabled("userspace", args.ros_events)
        /\ args.kernel_events # <<>> => DomainEnabled("kernel", args.kernel_events)

\* C2 witness: the lookup of "bogus" failed after a userspace event was
\* enabled, with a resolvable field next to it.
C2_Witness ==
    /\ ContextLookupFailed
    /\ outcome.arg = "bogus"
    /\ args.context_fields = CtxSet({"pid", "bogus"})
    /\ Count({"enable_event"}) >= 1

\* C3 as stated: a setup call whose contextFields holds at least one
\* unresolvable name never returns successfully, whatever domains are
\* enabled and whichever legal shape contextFields has.
C3_AsStated ==
    pc = "returned" => \A n \in GivenNames(args.context_fields) : ~Unresolved(n)

\* The set of context types the names of a list resolve to.
TypesOf(names) == {_context_field_name_to_type(n).value : n \in names}
EnabledDomains == {d \in DomainSet : ~handles[d].isNone}
Planned == pureOut # NoneVal /\ pureOut.op = "_normalize_contexts_dict"
PlanEntries(d) ==
    {i \in DOMAIN pureOut.out.dict : pureOut.out.dict[i].handle.domain = d}

\* C4 as stated: given a per-domain mapping of resolvable names, the
\* planner does not fail; every enabled domain that is a key gets exactly the
\* fields supplied for it, and every enabled domain absent from the mapping
\* gets an empty context list.
C4_AsStated ==
    LET cf == args.context_fields IN
    (Planned /\ cf.shape = "dict" /\ \A n \in GivenNames(cf) : ~Unresolved(n)) =>
        /\ pureOut.out.ok
        /\ \A d \in EnabledDomains :
              /\ Cardinality(PlanEntries(d)) = 1
              /\ \A i \in PlanEntries(d) :
                    Range(pureOut.out.dict[i].contexts) =
                        IF d \in DOMAIN cf.map THEN TypesOf(Range(cf.map[d])) ELSE {}

\* C5: given a flat set of resolvable names, the plan has exactly one entry
\* per enabled domain and none for a disabled one, and every entry holds one
\* context descriptor per distinct name of the set.
C5_FlatSetPlan ==
    LET cf == args.context_fields IN
    (Planned /\ cf.shape = "set" /\ \A n \in cf.fields : ~Unresolved(n)) =>
        /\ pureOut.out.ok
        /\ Len(pureOut.out.dict) = Cardinality(EnabledDomains)
        /\ \A d \in DomainSet :
              Cardinality(PlanEntries(d)) = IF d \in EnabledDomains THEN 1 ELSE 0
        /\ \A i \in DOMAIN pureOut.out.dict :
              /\ Len(pureOut.out.dict[i].contexts) = Cardinality(cf.fields)
              /\ Range(pureOut.out.dict[i].contexts) = TypesOf(cf.fields)

\* C5 witness: two fields planned for both domains.
C5_Witness ==
    /\ Planned
    /\ args.context_fields = CtxSet({"pid", "procname"})
    /\ EnabledDomains = DomainSet
    /\ pureOut.out.ok
    /\ Len(pureOut.out.dict) = Cardinality(DomainSet)

persistent == <<dirs, daemonAlive, sessions, environ, files, procTable>>

\* C6: a setup call with an empty session name ends at once with the error
\* "empty session name", having made no external call (no directory check,
\* liveness query, spawn, probe or daemon call) and changed nothing.
C6_EmptyName ==
    [][/\ (pc = "idle" /\ pc' \notin {"idle", "lifecycle"} /\ args'.session_name = "") =>
            /\ pc' = "raised"
            /\ outcome' = Raised("RuntimeError", "empty session name", "")
            /\ calls' = <<>>
            /\ UNCHANGED persistent
       /\ (pc = "raised" /\ args.session_name = "") =>
            /\ pc' = "idle"
            /\ calls' = <<>>
            /\ UNCHANGED persistent]_vars

\* C6 witness: the empty name was refused although kernel events were asked
\* for, no daemon runs and the directory check would have failed too.
C6_Witness ==
    /\ pc = "raised"
    /\ args.session_name = ""
    /\ outcome.msg = "empty session name"
    /\ args.kernel_events # <<>>
    /\ ~daemonAlive
    /\ dirs # {}

\* C7: with a non-empty name whose directory basePath/sessionName exists,
\* appendTrace=false ends the call with an error naming that path after the
\* directory check alone; appendTrace=true goes on to the first liveness
\* query, the first call after the directory check.
C7_ExistingDirectory ==
    /\ [][LET path == args'.base_path \o "/" \o args'.session_name IN
           /\ (pc = "idle" /\ pc' \notin {"idle", "lifecycle"} /\ args'.session_name # ""
                 /\ path \in dirs) =>
                IF ~args'.append_trace
                THEN /\ pc' = "raised"
                     /\ outcome' = Raised("RuntimeError",
                                          "trace directory already exists", path)
                     /\ calls' = <<Call("isdir", path, 1)>>
                ELSE /\ pc' = "alive1"
                     /\ outcome' = NoOutcome
           /\ (pc = "raised" /\ outcome.msg = "trace directory already exists") =>
                pc' = "idle" /\ calls' = <<>> /\ UNCHANGED persistent
           /\ pc = "alive1" => (pc' # "raised" /\ Len(calls') = 2)]_vars
    /\ [](Len(calls) >= 2 => calls[2].op = "session_daemon_alive")

\* C7 witness: the existing directory /tmp/s1 was refused.
C7_Witness ==
    /\ pc = "raised"
    /\ outcome.msg = "trace directory already exists"
    /\ outcome.arg = "/tmp/s1"
    /\ "/tmp/s1" \in dirs
    /\ ~args.append_trace

KernelProbes == CallsOf({"is_kernel_tracer_available"})

\* C8: once the kernel tracer probe has reported unavailable, setup has
\* failed with the probe as its last call: no create, handle, enableChannel,
\* enableEvent or addContext call was made for either domain.
C8_KernelUnavailable ==
    (Len(KernelProbes) >= 1 /\ KernelProbes[1].res # 0) =>
        /\ args.kernel_events # <<>>
        /\ pc = "raised"
        /\ outcome.msg = "kernel tracer is not available"
        /\ LastCall.op = "is_kernel_tracer_available"
        /\ Count(DaemonOps) = 0

\* C8 witness: the probe failed in a call that also asked for userspace
\* events.
C8_Witness ==
    /\ pc = "raised"
    /\ outcome.msg = "kernel tracer is not available"
    /\ args.ros_events # <<>>
    /\ args.kernel_events # <<>>

GateOps == {"session_daemon_alive", "spawn", "is_session_daemon_unreachable"}
IsPrefix(p, q) == Len(p) <= Len(q) /\ \A i \in DOMAIN p : p[i] = q[i]

PidsHeld(c) ==
    {ParseInt(SubSeq(c, x[1], x[2])) :
        x \in {y \in (DOMAIN c) \X (DOMAIN c) :
                 /\ y[1] <= y[2]
                 /\ \A k \in DOMAIN c : (k < y[1] \/ k > y[2]) => c[k] \in Whitespace
                 /\ \A k \in y[1]..y[2] : c[k] \in Digits}}

\* The PIDs recorded for the environment: none when the home is unresolved,
\* the PID file is absent or its content is no number.
RecordedPids ==
    LET set(v) == v \in DOMAIN environ /\ environ[v] # ""
        homes == IF set("LTTNG_HOME") THEN {environ["LTTNG_HOME"]}
                 ELSE IF set("HOME") THEN {environ["HOME"]} ELSE {} IN
    UNION {IF (h \o "/.lttng/lttng-sessiond.pid") \in DOMAIN files
           THEN PidsHeld(files[h \o "/.lttng/lttng-sessiond.pid"])
           ELSE {} : h \in homes}

\* C10: with no PID recorded is_session_daemon_unreachable returns false
\* and does not run ps; with a PID recorded it returns false exactly when a
\* process with that PID exists and its command name is lttng-sessiond, and
\* true otherwise.
C10_Unreachable ==
    (pureOut # NoneVal /\ pureOut.op = "is_session_daemon_unreachable") =>
        /\ Cardinality(RecordedPids) <= 1
        /\ RecordedPids = {} => (pureOut.out.result = FALSE /\ pureOut.out.ps = <<>>)
        /\ \A n \in RecordedPids :
              /\ pureOut.out.ps = <<n>>
              /\ pureOut.out.result =
                    ~(n \in DOMAIN procTable /\ procTable[n] = LttngSessiond)

\* C10 witness: the recorded PID belongs to a process that is not the
\* daemon, and the probe returned true.
C10_Witness ==
    /\ pureOut # NoneVal
    /\ pureOut.op = "is_session_daemon_unreachable"
    /\ pureOut.out.result = TRUE
    /\ \E n \in RecordedPids : n \in DOMAIN procTable /\ procTable[n] = OtherComm

\* The record of the call of start, stop or destroy that has just ended.
LifecycleOver == pc = "lifecycle"
LifecycleRaised == pureOut.outcome.status = "raised"
LifecycleResult == pureOut.calls[1].res

\* C11: each of start, stop and destroy makes exactly one daemon call, for
\* the session it was given; start raises exactly when the result is
\* negative; stop and destroy raise exactly when the result is negative and
\* ignore_error is false, so with ignore_error they return whatever the
\* result; none raises on a non-negative result.
C11_LifecycleFailures ==
    LifecycleOver =>
        /\ Len(pureOut.calls) = 1
        /\ pureOut.calls[1].op = pureOut.op
        /\ pureOut.calls[1].arg = pureOut.session_name
        /\ pureOut.outcome.status \in {"raised", "returned"}
        /\ pureOut.op = "start" => (LifecycleRaised <=> LifecycleResult < 0)
        /\ pureOut.op \in {"stop", "destroy"} =>
              /\ LifecycleRaised <=> (LifecycleResult < 0 /\ ~pureOut.ignore_error)
              /\ pureOut.ignore_error => ~LifecycleRaised
        /\ LifecycleResult >= 0 => ~LifecycleRaised

\* C11 witness: stop with ignore_error returned although the daemon call
\* failed.
C11_Witness ==
    /\ LifecycleOver
    /\ pureOut.op = "stop"
    /\ pureOut.ignore_error
    /\ LifecycleResult < 0
    /\ pureOut.outcome.status = "returned"

\* The calls made for domain d: its handle, its channel, its events and its
\* context fields.
DomainCalls(d) ==
    SelectSeq(calls, LAMBDA c :
        \/ c.op = "Handle" /\ c.arg = d
        \/ c.op \in {"enable_channel", "enable_event", "add_context"} /\ c.arg[1] = d)

\* The running call has a non-empty userspace event collection, an empty
\* kernel one and a flat collection of resolvable context fields, and found
\* no directory at its path.
HappyArguments ==
    /\ args.ros_events # <<>>
    /\ args.kernel_events = <<>>
    /\ args.context_fields.shape \in {"set", "list"}
    /\ \A n \in GivenNames(args.context_fields) : ~Unresolved(n)
    /\ calls # <<>> /\ calls[1] = Call("isdir", full_path, 0)

\* The daemon is healthy and every call made so far succeeded: the phantom
\* check was negative, the liveness query after it reported a daemon, the
\* one create returned 0, every handle was created and every other call
\* returned a non-negative result.
EveryCallSucceeded ==
    \A i \in DOMAIN calls :
        /\ calls[i].op = "is_session_daemon_unreachable" => calls[i].res = 0
        /\ (calls[i].op = "session_daemon_alive" /\ i > 1
              /\ calls[i - 1].op = "is_session_daemon_unreachable") => calls[i].res = 1
        /\ calls[i].op = "create" => calls[i].res = 0
        /\ calls[i].op = "Handle" => calls[i].res = 1
        /\ calls[i].op \in {"enable_channel", "enable_event", "add_context"} =>
              calls[i].res >= 0

\* C12: a setup call with happy arguments in which every call succeeds does
\* not raise; when it ends it has returned base_path/session_name after
\* exactly one create, one userspace handle, one enable_channel, one
\* enable_event for each distinct userspace event name and one add_context
\* for each distinct context field; it never probes the kernel tracer and
\* makes no call for the kernel domain.
C12_HappyPath ==
    (HappyArguments /\ EveryCallSucceeded) =>
        /\ pc # "raised"
        /\ Count({"is_kernel_tracer_available"}) = 0
        /\ DomainCalls("kernel") = <<>>
        /\ Count({"destroy"}) = 0
        /\ pc = "returned" =>
              LET ev == CallsOf({"enable_event"})
                  cx == CallsOf({"add_context"}) IN
              /\ outcome = Returned(args.base_path \o "/" \o args.session_name)
              /\ Count({"create"}) = 1
              /\ CallsOf({"Handle"}) = <<Call("Handle", "userspace", 1)>>
              /\ Count({"enable_channel"}) = 1
              /\ Len(ev) = Cardinality(Range(args.ros_events))
              /\ {ev[i].arg[2] : i \in DOMAIN ev} = Range(args.ros_events)
              /\ Len(cx) = Cardinality(GivenNames(args.context_fields))
              /\ {cx[i].arg[2] : i \in DOMAIN cx} =
                    TypesOf(GivenNames(args.context_fields))

\* C12 witness: setup("s1", "/tmp", ros_events e1 and e2, no kernel events,
\* context field pid) returned "/tmp/s1" with every call successful.
C12_Witness ==
    /\ pc = "returned"
    /\ HappyArguments /\ EveryCallSucceeded
    /\ args.ros_events = <<"e1", "e2">>
    /\ args.context_fields = CtxSet({"pid"})
    /\ outcome = Returned("/tmp/s1")
    /\ Count({"enable_event"}) = 2
    /\ Count({"add_context"}) = 1

\* A setup call is running, or has just ended, after an earlier setup call
\* returned and the session it set up was destroyed.
SetupAfterDestroy ==
    /\ life = "destroyed"
    /\ pc \notin {"idle", "lifecycle"}
    /\ args.session_name # ""

\* C13: after a setup call that returned, any start and stop calls and a
\* successful destroy, a later setup call for the same name and base path
\* creates a session only if append_trace is set or the directory check
\* found no directory; with the directory present and append_trace unset it
\* ends with the error that names the path, after the directory check alone
\* and with no create; otherwise the directory check does not end it.
C13_SetupAfterDestroy ==
    SetupAfterDestroy =>
        /\ calls # <<>> /\ calls[1].op = "isdir" /\ calls[1].arg = full_path
        /\ Count({"create"}) >= 1 => (args.append_trace \/ calls[1].res = 0)
        /\ (calls[1].res = 1 /\ ~args.append_trace) =>
              /\ pc = "raised"
              /\ outcome = Raised("RuntimeError", "trace directory already exists",
                                  full_path)
              /\ Len(calls) = 1
        /\ (Len(calls) = 1 /\ (args.append_trace \/ calls[1].res = 0)) => pc = "alive1"

\* C13 witness: after setup, destroy, the next setup for /tmp/s1 without
\* append_trace was refused because of the directory the first one left.
C13_Witness ==
    /\ SetupAfterDestroy
    /\ pc = "raised"
    /\ outcome.msg = "trace directory already exists"
    /\ full_path = "/tmp/s1"
    /\ full_path \in dirs
    /\ args.session_name \notin sessions

\* C14 as stated: get_session_daemon_pid returns None when the home is
\* unresolved, when the PID file is absent, or when the stripped content of
\* the file is not a positive integer; every value it returns is an integer
\* strictly greater than zero.
C14_AsStated ==
    (pureOut # NoneVal /\ pureOut.op = "get_session_daemon_pid") =>
        /\ {n \in RecordedPids : n > 0} = {} => pureOut.pid.isNone
        /\ ~pureOut.pid.isNone => pureOut.pid.value > 0

\* The running setup call has created the session: a create returned a
\* non-negative result.
IsCreated(c) == c.op = "create" /\ c.res >= 0
CreatedHere == \E i \in DOMAIN calls : IsCreated(calls[i])
ConfigOps == {"Handle", "enable_channel", "enable_event", "add_context"}
CallFailed(c) ==
    \/ c.op = "Handle" /\ c.res = 0
    \/ c.op \in {"enable_channel", "enable_event", "add_context"} /\ c.res < 0

\* C15: setup never calls start or stop; every destroy it makes directly
\* follows a create that returned "already exists" and comes before the
\* session was created by this call; after the successful create only
\* handle, enable_channel, enable_event and add_context calls are made; a
\* failure after it ends the call with one error, the failed call (if a call
\* failed) being the last one, and the daemon still holds the session; the
\* end of the failed call changes nothing in the daemon or on disk.
C15_NoRollback ==
    /\ [](/\ \A i \in DOMAIN calls : calls[i].op \notin {"start", "stop"}
          /\ \A i \in DOMAIN calls : calls[i].op = "destroy" =>
                /\ i > 1
                /\ calls[i - 1].op = "create" /\ calls[i - 1].res = AlreadyExists
                /\ \A j \in 1..i : ~IsCreated(calls[j])
          /\ \A i, j \in DOMAIN calls :
                (i < j /\ IsCreated(calls[i])) => calls[j].op \in ConfigOps
          /\ \A i \in DOMAIN calls : CallFailed(calls[i]) =>
                pc = "raised" /\ i = Len(calls)
          /\ (CreatedHere /\ pc = "raised") =>
                /\ outcome.status = "raised"
                /\ args.session_name \in sessions)
    /\ [][(CreatedHere /\ pc = "raised") =>
            /\ pc' = "idle"
            /\ UNCHANGED persistent]_vars

\* C15 witness: add_context failed after the session was created and an
\* event was enabled; the session is still there.
C15_Witness ==
    /\ pc = "raised"
    /\ CreatedHere
    /\ outcome.msg = "failed to add context field"
    /\ \E i \in DOMAIN calls : calls[i].op = "enable_event" /\ calls[i].res >= 0
    /\ Count({"destroy"}) = 0
    /\ args.session_name \in sessions

\* The events of domain d enabled so far with a non-negative result.
EventsEnabled(d) ==
    {calls[i].arg[2] : i \in {k \in DOMAIN calls :
        /\ calls[k].op = "enable_event"
        /\ calls[k].arg[1] = d
        /\ calls[k].res >= 0}}
EventsOf(d) ==
    IF d = "userspace" THEN Range(args.ros_events) ELSE Range(args.kernel_events)

\* C16: when enable_event returns a negative result for an event of a
\* domain, that call is setup's last: no enable_event follows for the rest
\* of the domain's events, no call at all is made for the kernel domain when
\* the failure is in the userspace domain, no add_context is made, and setup
\* raises "event enabling failed"; the events enabled before are events of
\* that call and nothing disables them, and the session stays.
C16_FirstFailingEvent ==
    \A i \in DOMAIN calls :
        (calls[i].op = "enable_event" /\ calls[i].res < 0) =>
            LET d == calls[i].arg[1] IN
            /\ i = Len(calls)
            /\ pc = "raised"
            /\ outcome = Raised("RuntimeError", "event enabling failed", calls[i].res)
            /\ Count({"add_context"}) = 0
            /\ d = "userspace" => DomainCalls("kernel") = <<>>
            /\ calls[i].arg[2] \in EventsOf(d) \ EventsEnabled(d)
            /\ EventsEnabled(d) \subseteq EventsOf(d)
            /\ Len(SelectSeq(DomainCalls(d), LAMBDA c : c.op = "enable_event")) =
                  Cardinality(EventsEnabled(d)) + 1
            /\ \A j \in DOMAIN calls : calls[j].op \in DaemonOps \cup {"isdir"} \cup GateOps
                                          \cup {"is_kernel_tracer_available"}
            /\ args.session_name \in sessions

\* C16 witness: the second of two userspace events failed; the first stays
\* enabled and the kernel events asked for were never touched.
C16_Witness ==
    /\ pc = "raised"
    /\ outcome.msg = "event enabling failed"
    /\ LastCall.op = "enable_event" /\ LastCall.arg[1] = "userspace"
    /\ Cardinality(EventsEnabled("userspace")) = 1
    /\ args.kernel_events # <<>>
    /\ Count({"add_context"}) = 0

\* The handle, channel and event calls made for domain d, in order.
DomainSetupCalls(d) ==
    SelectSeq(DomainCalls(d), LAMBDA c : c.op # "add_context")

\* C17: in every run, a handle, enable_channel, enable_event or add_context
\* call is made only after a create that succeeded; the calls of a domain
\* are its handle, then its enable_channel, then its enable_event calls,
\* each made only after the one before succeeded; every userspace handle,
\* channel or event call precedes every kernel one; and the add_context
\* calls come last, after the channel and every event of each domain asked
\* for were enabled successfully.
C17_CallOrder ==
    /\ \A i \in DOMAIN calls : calls[i].op \in ConfigOps =>
          \E j \in 1..(i - 1) : calls[j].op = "create" /\ calls[j].res = 0
    /\ \A d \in DomainSet :
          LET q == DomainSetupCalls(d) IN
          /\ Len(q) >= 1 => q[1].op = "Handle"
          /\ Len(q) >= 2 => q[2].op = "enable_channel"
          /\ \A k \in DOMAIN q : k >= 3 => q[k].op = "enable_event"
          /\ \A k \in DOMAIN q : k < Len(q) => ~CallFailed(q[k])
    /\ \A i, j \in DOMAIN calls :
          (/\ calls[i].op \in ConfigOps \ {"add_context"}
           /\ calls[j].op \in ConfigOps \ {"add_context"}
           /\ (IF calls[i].op = "Handle" THEN calls[i].arg ELSE calls[i].arg[1]) = "userspace"
           /\ (IF calls[j].op = "Handle" THEN calls[j].arg ELSE calls[j].arg[1]) = "kernel")
          => i < j
    /\ \A i, j \in DOMAIN calls :
          (i < j /\ calls[i].op = "add_context") =>
              calls[j].op = "add_context" /\ ~CallFailed(calls[i])
    /\ Count({"add_context"}) >= 1 =>
          /\ args.ros_events # <<>> => DomainEnabled("userspace", args.ros_events)
          /\ args.kernel_events # <<>> => DomainEnabled("kernel", args.kernel_events)

\* C17 witness: setup returned after configuring both domains and adding a
\* context field to each.
C17_Witness ==
    /\ pc = "returned"
    /\ Len(DomainSetupCalls("userspace")) >= 4
    /\ Len(DomainSetupCalls("kernel")) >= 3
    /\ Count({"add_context"}) >= 2

\* The running call has passed the daemon steps: the phantom check was
\* negative and the liveness query right after it reported a daemon.
GatePassedAt(i) ==
    /\ i \in DOMAIN calls /\ i > 1
    /\ calls[i].op = "session_daemon_alive" /\ calls[i].res = 1
    /\ calls[i - 1].op = "is_session_daemon_unreachable" /\ calls[i - 1].res = 0
GatePassed == \E i \in DOMAIN calls : GatePassedAt(i)

\* C18: in a setup run the kernel tracer is probed at most once; it is
\* probed exactly when there are kernel events and the run has passed the
\* daemon steps, as the call right after the second liveness query; no
\* spawn, phantom check or liveness query comes after it and no daemon call
\* before it; with no kernel events it is never probed.
C18_KernelProbe ==
    /\ Len(KernelProbes) <= 1
    /\ args.kernel_events = <<>> => Len(KernelProbes) = 0
    /\ \A i \in DOMAIN calls : calls[i].op = "is_kernel_tracer_available" =>
          /\ args.kernel_events # <<>>
          /\ GatePassedAt(i - 1)
          /\ \A j \in DOMAIN calls : calls[j].op \in GateOps => j < i
          /\ \A j \in DOMAIN calls : calls[j].op \in DaemonOps => j > i
    /\ (GatePassed /\ args.kernel_events # <<>>) =>
          (Len(KernelProbes) = 1 \/ (pc = "kprobe" /\ Len(KernelProbes) = 0))
    /\ pc = "kprobe" => (GatePassed /\ args.kernel_events # <<>>)

\* C18 witness: the kernel tracer was probed after a daemon was spawned,
\* and the session was created after it.
C18_Witness ==
    /\ Len(KernelProbes) = 1
    /\ KernelProbes[1].res = 0
    /\ Count({"spawn"}) = 1
    /\ Count({"create"}) >= 1
    /\ args.ros_events # <<>>

\* C20: when the destroy of the stale session returns a negative result,
\* setup ends there with the error of destroy: the destroy is its last call,
\* the create that returned "already exists" stays its only create, and
\* nothing is configured; a destroy that did not fail never ends the call.
C20_StaleDestroyFails ==
    \A i \in DOMAIN calls : calls[i].op = "destroy" =>
        IF calls[i].res < 0
        THEN /\ i = Len(calls)
             /\ pc = "raised"
             /\ outcome = Raised("RuntimeError", "failed to destroy tracing session",
                                 calls[i].res)
             /\ CallsOf({"create"}) = <<Call("create", full_path, AlreadyExists)>>
             /\ Count(ConfigOps) = 0
        ELSE /\ pc = "create_retry" \/ Count({"create"}) = 2
             /\ pc = "raised" => outcome.msg # "failed to destroy tracing session"

\* C20 witness: the stale session could not be destroyed and setup raised
\* the error of destroy after one create.
C20_Witness ==
    /\ pc = "raised"
    /\ outcome.msg = "failed to destroy tracing session"
    /\ LastCall = Call("destroy", "s1", -1)
    /\ Count({"create"}) = 1
    /\ args.ros_events # <<>>

\* The calls of caller c whose operation is op, and those that succeeded.
ConcCount(c, op) ==
    Len(SelectSeq(callers[c].calls, LAMBDA k : k.op = op))
ConcSucceeded(c, op) ==
    Len(SelectSeq(callers[c].calls, LAMBDA k : k.op = op /\ k.res = 0))
ConcOver(c) == callers[c].pc \in {"returned", "raised"}

\* The single-retry rule for caller c: create, then a destroy only after
\* "already exists", then one more create only after a destroy that did not
\* fail; an error of the destroy or of either create ends the call.
SingleRetry(c) ==
    LET cd == callers[c].calls IN
    /\ Len(cd) <= 3
    /\ Len(cd) >= 1 => cd[1].op = "create"
    /\ Len(cd) >= 2 => cd[1].res = AlreadyExists /\ cd[2].op = "destroy"
    /\ Len(cd) >= 3 => cd[2].res >= 0 /\ cd[3].op = "create"
    /\ (Len(cd) = 1 /\ cd[1].res = AlreadyExists) => callers[c].pc = "destroy_stale"
    /\ (Len(cd) = 2 /\ cd[2].res >= 0) => callers[c].pc = "create_retry"
    /\ (cd # <<>> /\ cd[Len(cd)].res < 0 /\ ~(Len(cd) = 1 /\ cd[1].res = AlreadyExists))
          => callers[c].pc = "raised"
    /\ callers[c].pc \in {"created", "returned"} =>
          cd # <<>> /\ cd[Len(cd)].op = "create" /\ cd[Len(cd)].res = 0

\* C19: with two setup calls for one session name running at the same time,
\* each makes at most two create calls and at most one destroy call and
\* follows the single-retry rule; the creates that succeeded outnumber the
\* destroys that succeeded by no more than the one session the daemon holds
\* under that name; and each call, once begun, ends with the path returned
\* or an error raised.
C19_ConcurrentSetup ==
    /\ [](/\ \A c \in Callers :
                /\ ConcCount(c, "create") <= 2
                /\ ConcCount(c, "destroy") <= 1
                /\ SingleRetry(c)
          /\ sessions \subseteq {ConcSessionName}
          /\ LET created == ConcSucceeded("a", "create") + ConcSucceeded("b", "create")
                 destroyed == ConcSucceeded("a", "destroy") + ConcSucceeded("b", "destroy")
             IN  created - destroyed <= Cardinality(sessions))
    /\ \A c \in Callers : (callers[c].pc = "create") ~> ConcOver(c)

\* C19 witness: caller a created the session and has not ended; caller b got
\* "already exists" and its destroy removed that session.
C19_Witness ==
    /\ callers["a"].calls = <<Call("create", ConcFullPath, 0)>>
    /\ callers["a"].pc = "created"
    /\ callers["b"].calls =
          <<Call("create", ConcFullPath, AlreadyExists), Call("destroy", ConcSessionName, 0)>>
    /\ ConcSessionName \notin sessions

\* A setup call with a name and with both event collections empty is
\* running or has just ended.
NoEventsAtAll ==
    /\ pc \notin {"idle", "lifecycle"}
    /\ args.session_name # ""
    /\ args.ros_events = <<>>
    /\ args.kernel_events = <<>>

\* C21: a setup call with both event collections empty and a set, list or
\* dict of context fields makes no handle, enable_channel, enable_event or
\* add_context call and no kernel tracer probe, and has no handle; its
\* context plan is empty whatever names were given, none being looked up;
\* once the daemon steps are passed and a create has succeeded nothing can
\* fail any more: the call returns base_path/session_name and the daemon
\* holds the session.
C21_NoDomainEnabled ==
    NoEventsAtAll =>
        /\ Count(ConfigOps) = 0
        /\ Count({"is_kernel_tracer_available"}) = 0
        /\ handles = NoHandles
        /\ pc = "normalize" =>
              _normalize_contexts_dict(handles, CoerceContextFields(args.context_fields))
                 = {[ok |-> TRUE, dict |-> <<>>]}
        /\ CreatedHere =>
              /\ pc \in {"normalize", "returned"}
              /\ args.session_name \in sessions
        /\ pc = "returned" =>
              /\ CreatedHere
              /\ outcome = Returned(args.base_path \o "/" \o args.session_name)
        /\ pc = "raised" =>
              /\ outcome.msg \in {"trace directory already exists",
                                  "lttng-sessiond seems to exist, but is unreachable",
                                  "failed to start lttng session daemon",
                                  "session creation failed",
                                  "failed to destroy tracing session"}

\* C21 witness: with no events at all and a context field that does not
\* resolve next to one that does, setup created the session and returned.
C21_Witness ==
    /\ NoEventsAtAll
    /\ pc = "returned"
    /\ args.context_fields = CtxSet({"pid", "bogus"})
    /\ outcome = Returned("/tmp/s1")
    /\ calls[Len(calls)] = Call("create", "/tmp/s1", 0)
    /\ "s1" \in sessions

====
